---- MODULE Spec2Model ----
(***************************************************************************)
(* ip2country: the range engine (IPCountryDB), the exact engine            *)
(* (ExactIPCountryMap) and their LRU cache, as a state machine.            *)
(*                                                                         *)
(* Threads call GetCountry / GetCountryCode / Reload on one engine         *)
(* instance; every statement that takes or releases a lock, reads or       *)
(* writes the atomic flag, or reads the source file is a step.             *)
(***************************************************************************)
EXTENDS Integers, Sequences, FiniteSets, TLC

(***************************************************************************)
(* Bounds of the model.                                                    *)
(***************************************************************************)
\* The numeric address space is 0..MaxIP (MaxIP stands for 2^32-1).
MaxIP == 4
\* Number of concurrent callers.
NumThreads == 2
\* Total number of calls issued in one behaviour.
MaxCalls == 3
\* Capacity given to the cache (Config.CacheSize).
CacheCap == 2
\* Length of the enumerated source files and range collections.
MaxLines == 2

Threads == 1..NumThreads
IPs == 0..MaxIP
NoThread == 0
NoErr == "nil"

(***************************************************************************)
(* Text.  An address string is a record: form "dec" is an unsigned decimal *)
(* integer text with value n, "dot" is dotted-decimal IPv4 text of the     *)
(* address n, "v6" is text net.ParseIP accepts but that is not IPv4,       *)
(* "junk" is anything else.  A code field is form "txt" with its text.     *)
(***************************************************************************)
Dec(n) == [form |-> "dec", n |-> n, txt |-> ""]
Dot(n) == [form |-> "dot", n |-> n, txt |-> ""]
V6 == [form |-> "v6", n |-> 0, txt |-> ""]
Junk == [form |-> "junk", n |-> 0, txt |-> ""]
Txt(s) == [form |-> "txt", n |-> 0, txt |-> s]

\* Mutant: parseIP without its error returns.
parseIPLenient(s) == [ok |-> TRUE, num |-> s.n]

\* parseIP: dotted IPv4 gives its big-endian number; an IPv6 literal is
\* refused; a decimal text is accepted when it fits 32 bits; else an error.
parseIP(s) ==
    CASE s.form = "dot" -> [ok |-> TRUE, num |-> s.n]
      [] s.form = "v6" -> [ok |-> FALSE, num |-> 0]
      [] s.form = "dec" /\ s.n <= MaxIP -> [ok |-> TRUE, num |-> s.n]
      [] OTHER -> [ok |-> FALSE, num |-> 0]

\* The text of a field as strings.TrimSpace leaves it, for the code column
\* (an address text in the code column is some non-empty text).
FieldText(s) ==
    IF s.form = "txt" THEN s.txt ELSE "?"

(***************************************************************************)
(* IPRange and its methods.                                                *)
(***************************************************************************)
\* Mutant: a record built without its Country.
IPRangeNoCountry(s, e, c) == [StartIP |-> s, EndIP |-> e, Country |-> "", Code |-> c]

\* An IPRange as parseLine builds it: Country is the same as Code.
IPRange(s, e, c) == [StartIP |-> s, EndIP |-> e, Country |-> c, Code |-> c]

\* Mutant: Contains without the upper bound.
ContainsNoEnd(r, ip) == ip >= r.StartIP

Contains(r, ip) == ip >= r.StartIP /\ ip <= r.EndIP

\* IPRange.Validate: the error, or NoErr.
Validate(r) ==
    IF r.StartIP > r.EndIP THEN "invalid range"
    ELSE IF r.Code = "" THEN "country code cannot be empty"
    ELSE NoErr

(***************************************************************************)
(* A source file is [exists, lines, ioErr]: lines are the lines the        *)
(* scanner can read, each a sequence of fields (the line split at the      *)
(* delimiter, <<>> for a blank line); ioErr says the read fails after      *)
(* them.  Its size is counted in lines.                                    *)
(***************************************************************************)
FileSize(f) == Len(f.lines)

NoRange == IPRange(0, 0, "")

\* IPCountryDB.parseLine: start_ip,end_ip,country_code.
parseLine(line) ==
    IF Len(line) # 3
    THEN [err |-> "incorrect number of fields", range |-> NoRange]
    ELSE LET s == parseIP(line[1])
             e == parseIP(line[2])
             r == IPRange(s.num, e.num, FieldText(line[3]))
         IN  IF ~s.ok THEN [err |-> "invalid start IP", range |-> NoRange]
             ELSE IF ~e.ok THEN [err |-> "invalid end IP", range |-> NoRange]
             ELSE IF Validate(r) # NoErr THEN [err |-> Validate(r), range |-> NoRange]
             ELSE [err |-> NoErr, range |-> r]

\* Mutant: the exact parseLine without the test for an empty code.
exactParseLineAnyCode(line) ==
    IF Len(line) # 2
    THEN [err |-> "incorrect number of fields", ipNum |-> 0, code |-> ""]
    ELSE LET p == parseIP(line[1])
         IN  IF ~p.ok THEN [err |-> "invalid IP", ipNum |-> 0, code |-> ""]
             ELSE [err |-> NoErr, ipNum |-> p.num, code |-> FieldText(line[2])]

\* ExactIPCountryMap.parseLine: ip,country_code.
exactParseLine(line) ==
    IF Len(line) # 2
    THEN [err |-> "incorrect number of fields", ipNum |-> 0, code |-> ""]
    ELSE LET p == parseIP(line[1])
             c == FieldText(line[2])
         IN  IF ~p.ok THEN [err |-> "invalid IP", ipNum |-> 0, code |-> ""]
             ELSE IF c = "" THEN [err |-> "country code cannot be empty", ipNum |-> p.num, code |-> ""]
             ELSE [err |-> NoErr, ipNum |-> p.num, code |-> c]

\* The comparison sort.Slice is given: by StartIP.
SortLess(a, b) == a.StartIP < b.StartIP

\* sort.Slice is not stable: every ordering of the records that is sorted
\* by the comparison is a possible result.
SortSlice(rs) ==
    LET n == Len(rs)
        perms == {p \in [1..n -> 1..n] : \A i, j \in 1..n : i # j => p[i] # p[j]}
    IN  {[i \in 1..n |-> rs[p[i]]] : p \in
            {q \in perms : \A i \in 1..n, j \in 1..n :
                 i < j => ~SortLess(rs[q[j]], rs[q[i]])}}

\* Mutant: the adjacency test with > for >=.
OverlapsNextStrict(ranges, i) == ranges[i].EndIP > ranges[i + 1].StartIP

\* The test validateRanges applies to the adjacent pair i, i+1.
OverlapsNext(ranges, i) == ranges[i].EndIP >= ranges[i + 1].StartIP

\* IPCountryDB.validateRanges on a sorted slice: the error, or NoErr.
validateRanges(ranges) ==
    IF \E i \in 1..(Len(ranges) - 1) : OverlapsNext(ranges, i)
    THEN "range validation failed"
    ELSE NoErr

\* Mutant: the search predicate with >= for >.
SearchPredGe(ranges, i, ipNum) == ranges[i + 1].StartIP >= ipNum

\* The predicate findCountryForIP hands to sort.Search (i is 0-based).
SearchPred(ranges, i, ipNum) == ranges[i + 1].StartIP > ipNum

\* sort.Search(n, f): the smallest index in [0, n] at which f is true,
\* by bisection.
RECURSIVE SearchLoop(_, _, _, _)
SearchLoop(ranges, ipNum, i, j) ==
    IF i < j
    THEN LET h == (i + j) \div 2
         IN  IF ~SearchPred(ranges, h, ipNum)
             THEN SearchLoop(ranges, ipNum, h + 1, j)
             ELSE SearchLoop(ranges, ipNum, i, h)
    ELSE i

Search(ranges, ipNum) == SearchLoop(ranges, ipNum, 0, Len(ranges))

(***************************************************************************)
(* cacheEntry, and what the two engines compute on a cache miss.           *)
(***************************************************************************)
cacheEntry(ip, country, code, found) ==
    [ip |-> ip, country |-> country, code |-> code, found |-> found]

NoEntry == cacheEntry(0, "", "", FALSE)

\* IPCountryDB.findCountryForIP after the cache miss: the entry it stores.
rangeSearch(ranges, ipNum) ==
    LET idx == Search(ranges, ipNum)
    IN  IF idx > 0 /\ Contains(ranges[idx], ipNum)
        THEN cacheEntry(ipNum, ranges[idx].Country, ranges[idx].Code, TRUE)
        ELSE cacheEntry(ipNum, "", "", FALSE)

EmptyMap == [k \in {} |-> ""]

\* ExactIPCountryMap.findCountryForIP after the cache miss.
exactSearch(m, ipNum) ==
    IF ipNum \in DOMAIN m
    THEN cacheEntry(ipNum, m[ipNum], m[ipNum], TRUE)
    ELSE cacheEntry(ipNum, "", "", FALSE)

(***************************************************************************)
(* lruCache: items is the key index (key -> the entry held by the list     *)
(* element), evictList the keys in recency order, front first.             *)
(***************************************************************************)
Remove(list, key) ==
    LET keep(k) == k # key IN SelectSeq(list, keep)

\* Mutant: MoveToFront that leaves the element where it was as well.
MoveToFrontCopy(list, key) == <<key>> \o list

MoveToFront(list, key) == <<key>> \o Remove(list, key)

PushFront(list, key) == <<key>> \o list

Back(list) == list[Len(list)]

RemoveBack(list) == SubSeq(list, 1, Len(list) - 1)

DropKey(m, key) == [k \in (DOMAIN m) \ {key} |-> m[k]]

SetKey(m, key, v) == [k \in (DOMAIN m) \cup {key} |-> IF k = key THEN v ELSE m[k]]

\* Mutant: removeOldest taking the front of the list, the newest entry.
removeNewest(c) ==
    IF Len(c.evictList) > 0
    THEN [items |-> DropKey(c.items, c.evictList[1]),
          evictList |-> Tail(c.evictList)]
    ELSE c

\* lruCache.removeOldest on [items, evictList].
removeOldest(c) ==
    IF Len(c.evictList) > 0
    THEN [items |-> DropKey(c.items, Back(c.evictList)),
          evictList |-> RemoveBack(c.evictList)]
    ELSE c

\* Mutant: put makes room in a full cache before it looks for its key.
cachePutEvictFirst(c, capacity, key, value) ==
    LET d == IF Len(c.evictList) >= capacity THEN removeOldest(c) ELSE c
    IN  [items |-> SetKey(d.items, key, value),
         evictList |-> PushFront(Remove(d.evictList, key), key)]

\* lruCache.put's body on [items, evictList] with the given capacity.
cachePut(c, capacity, key, value) ==
    IF key \in DOMAIN c.items
    THEN [items |-> SetKey(c.items, key, value),
          evictList |-> MoveToFront(c.evictList, key)]
    ELSE LET d == IF Len(c.evictList) >= capacity THEN removeOldest(c) ELSE c
         IN  [items |-> SetKey(d.items, key, value),
              evictList |-> PushFront(d.evictList, key)]

(***************************************************************************)
(* State.                                                                  *)
(***************************************************************************)
VARIABLES
    kind,         \* "range" (IPCountryDB) or "exact" (ExactIPCountryMap)
    config,       \* Config, as the constructor leaves it
    file,         \* the source file at filePath, as it is on disk
    ranges,       \* db.ranges
    ipMap,        \* m.ipMap
    parseErrors,  \* m.parseErrors
    initialized,  \* the atomic flag
    initErr,      \* the recorded initialization error
    stats,        \* the engine's stats field
    wholder,      \* mu: the thread that has called Lock and not yet Unlock
    readers,      \* mu: the threads holding it shared
    items,        \* cache.items
    evictList,    \* cache.evictList
    hits,         \* cache.hits
    misses,       \* cache.misses
    cmu,          \* cache.mu: its holder
    pc,           \* each thread's position
    op,           \* each thread's current call
    ipStr,        \* the call's ipStr argument
    ctx,          \* the call's context
    ipNum,        \* the parsed address / the cache key
    entry,        \* the cacheEntry in hand
    ierr,         \* what initializeWithContext returns
    scan,         \* the locals of the parse loop
    ret,          \* what each thread's last call returned
    calls,        \* number of calls issued
    loads,        \* number of times the load pipeline was started
    recording,    \* whether log is kept
    log,          \* history of the cache operations and lookups
    snap,         \* the locals of Stats and GetParseErrors
    statCalls,    \* number of Stats and GetParseErrors calls issued
    validateIn,   \* the argument of a ValidateIPRanges call
    validateOut   \* what that call returned

vars == <<kind, config, file, ranges, ipMap, parseErrors, initialized, initErr,
          stats, wholder, readers, items, evictList, hits, misses, cmu, pc, op,
          ipStr, ctx, ipNum, entry, ierr, scan, ret, calls, loads, recording, log,
          snap, statCalls, validateIn, validateOut>>

envVars == <<kind, config, recording>>
dataVars == <<ranges, ipMap, parseErrors, stats>>
lockVars == <<wholder, readers>>
cacheVars == <<items, evictList, hits, misses>>
argVars == <<op, ipStr, ctx>>
sideVars == <<snap, statCalls, validateIn, validateOut>>

DefaultCacheSize == 1000

\* The constructors' normalisation of Config.
newConfig(cfg) ==
    IF cfg.CacheSize <= 0 THEN [cfg EXCEPT !.CacheSize = DefaultCacheSize] ELSE cfg

NoScan ==
    [src |-> <<>>, size |-> 0, ioErr |-> FALSE, lineNum |-> 0, ranges |-> <<>>,
     errors |-> <<>>, processed |-> 0, scanErr |-> FALSE]

NoRet == [op |-> "none", ip |-> Junk, kind |-> "none", val |-> ""]

NoStats == [TotalRanges |-> 0, FileSize |-> 0]

\* Stats' locals before anything is read: s, hits, misses.
NoSnap == [stats |-> NoStats, errors |-> <<>>, hits |-> 0, misses |-> 0]

\* No ValidateIPRanges call has returned.
NoOut == [err |-> "none", index |-> 0, previous |-> IPRange(0, 0, ""),
          current |-> IPRange(0, 0, "")]

LookupOps == {"GetCountry", "GetCountryCode"}

Log(e) == IF recording THEN Append(log, e) ELSE log

\* A context: "background" is never done; a "cancellable" one may be found
\* done at any check, the first included (it was cancelled before the call).
CtxDone(c) ==
    IF c = "background" THEN {FALSE} ELSE {TRUE, FALSE}

\* The state after construction, but for the environment's choices.
InitEngine ==
    /\ ranges = <<>>
    /\ ipMap = EmptyMap
    /\ parseErrors = <<>>
    /\ initialized = 0
    /\ initErr = NoErr
    /\ stats = NoStats
    /\ wholder = NoThread
    /\ readers = {}

InitCache ==
    /\ items = EmptyMap
    /\ evictList = <<>>
    /\ hits = 0
    /\ misses = 0
    /\ cmu = NoThread

InitThreads ==
    /\ pc = [t \in Threads |-> "idle"]
    /\ op = [t \in Threads |-> "none"]
    /\ ipStr = [t \in Threads |-> Junk]
    /\ ctx = [t \in Threads |-> "background"]
    /\ ipNum = [t \in Threads |-> 0]
    /\ entry = [t \in Threads |-> NoEntry]
    /\ ierr = [t \in Threads |-> NoErr]
    /\ scan = [t \in Threads |-> NoScan]
    /\ ret = [t \in Threads |-> NoRet]
    /\ calls = 0
    /\ loads = 0
    /\ log = <<>>
    /\ snap = [t \in Threads |-> NoSnap]
    /\ statCalls = 0

\* ValidateIPRanges has not been called.
NoValidate ==
    /\ validateIn = <<>>
    /\ validateOut = NoOut

\* The call returns r: the thread is idle again and its locals are gone.
Done(t, r) ==
    /\ pc' = [pc EXCEPT ![t] = "idle"]
    /\ ret' = [ret EXCEPT ![t] = r]
    /\ op' = [op EXCEPT ![t] = "none"]
    /\ ipStr' = [ipStr EXCEPT ![t] = Junk]
    /\ ctx' = [ctx EXCEPT ![t] = "background"]
    /\ ipNum' = [ipNum EXCEPT ![t] = 0]
    /\ entry' = [entry EXCEPT ![t] = NoEntry]
    /\ ierr' = [ierr EXCEPT ![t] = NoErr]
    /\ scan' = [scan EXCEPT ![t] = NoScan]
    /\ log' = Log([ev |-> "ret", t |-> t, key |-> ipNum[t], entry |-> entry[t],
                   r |-> r, hits |-> hits', misses |-> misses'])

Goto(t, l) == pc' = [pc EXCEPT ![t] = l]

Result(t, k, v) == [op |-> op[t], ip |-> ipStr[t], kind |-> k, val |-> v]

(***************************************************************************)
(* initializeWithContext (both engines).                                   *)
(***************************************************************************)
\* What the caller of initializeWithContext does with its result e:
\* Get*WithContext returns the wrapped error, or parses ipStr and goes on
\* to RLock; ReloadWithContext goes on to its return.
AfterInit(t, e) ==
    IF op[t] = "Reload"
    THEN /\ Goto(t, "reload_ret")
         /\ ierr' = [ierr EXCEPT ![t] = e]
         /\ UNCHANGED <<ret, argVars, ipNum, entry, scan, log>>
    ELSE IF e # NoErr
    THEN Done(t, Result(t, "initerr", e))
    ELSE IF ~parseIP(ipStr[t]).ok
    THEN Done(t, Result(t, "invalid", ""))
    ELSE /\ Goto(t, "rlock")
         /\ ipNum' = [ipNum EXCEPT ![t] = parseIP(ipStr[t]).num]
         /\ ierr' = [ierr EXCEPT ![t] = NoErr]
         /\ scan' = [scan EXCEPT ![t] = NoScan]
         /\ UNCHANGED <<ret, argVars, entry, log>>

\* Mutant: no fast path, every call goes on to take the exclusive lock.
FastPathNever(flag) == FALSE

\* Whether the first, unlocked check of the flag returns early.
FastPath(flag) == flag = 1

\* The unlocked read of the flag.
InitFast(t) ==
    /\ pc[t] = "init_fast"
    /\ Goto(t, IF FastPath(initialized) THEN "init_fast_err" ELSE "init_lock")
    /\ UNCHANGED <<envVars, sideVars, file, dataVars, initialized, initErr, lockVars,
                   cacheVars, cmu, argVars, ipNum, entry, ierr, scan, ret,
                   calls, loads, log>>

\* The unlocked read of initErr that follows a flag read as 1.
InitFastErr(t) ==
    /\ pc[t] = "init_fast_err"
    /\ UNCHANGED <<envVars, sideVars, file, dataVars, initialized, initErr, lockVars,
                   cacheVars, cmu, calls, loads>>
    /\ AfterInit(t, initErr)

\* mu.Lock() is called: later RLock calls wait from now on.
InitLock(t) ==
    /\ pc[t] = "init_lock"
    /\ wholder = NoThread
    /\ wholder' = t
    /\ Goto(t, "init_wait")
    /\ UNCHANGED <<envVars, sideVars, file, dataVars, initialized, initErr, readers,
                   cacheVars, cmu, argVars, ipNum, entry, ierr, scan, ret,
                   calls, loads, log>>

\* Mutant: the flag is not checked again under the lock.
RecheckNever(flag) == FALSE

\* Whether the second check of the flag returns early.
Recheck(flag) == flag = 1

\* mu.Lock() returns once the readers have left; the flag is read again.
InitAcquire(t) ==
    /\ pc[t] = "init_wait"
    /\ readers = {}
    /\ IF Recheck(initialized)
       THEN /\ ierr' = [ierr EXCEPT ![t] = initErr]
            /\ Goto(t, "init_unlock")
       ELSE /\ Goto(t, "load_open")
            /\ UNCHANGED ierr
    /\ UNCHANGED <<envVars, sideVars, file, dataVars, initialized, initErr, lockVars,
                   cacheVars, cmu, argVars, ipNum, entry, scan, ret,
                   calls, loads, log>>

\* The load fails with e: it is recorded and returned.
LoadFail(t, e) ==
    /\ initErr' = e
    /\ ierr' = [ierr EXCEPT ![t] = e]
    /\ Goto(t, "init_unlock")

\* parseFileWithContext up to the scan loop: open, stat, size limit; the
\* exact engine then replaces its map and its parse errors.
LoadOpen(t) ==
    /\ pc[t] = "load_open"
    /\ loads' = loads + 1
    /\ IF ~file.exists
       THEN /\ LoadFail(t, "failed to open file")
            /\ UNCHANGED <<scan, ipMap, parseErrors>>
       ELSE IF config.MaxFileSize > 0 /\ FileSize(file) > config.MaxFileSize
       THEN /\ LoadFail(t, "file size exceeds limit")
            /\ UNCHANGED <<scan, ipMap, parseErrors>>
       ELSE /\ scan' = [scan EXCEPT ![t] =
                   [NoScan EXCEPT !.src = file.lines, !.size = FileSize(file),
                                  !.ioErr = file.ioErr]]
            /\ IF kind = "exact"
               THEN ipMap' = EmptyMap /\ parseErrors' = <<>>
               ELSE UNCHANGED <<ipMap, parseErrors>>
            /\ Goto(t, "load_scan")
            /\ UNCHANGED <<initErr, ierr>>
    /\ UNCHANGED <<envVars, sideVars, file, ranges, stats, initialized, lockVars,
                   cacheVars, cmu, argVars, ipNum, entry, ret, calls, log>>

\* Whether the record limit ends the loop after n records.
\* Mutant: the loop stops one record after the limit.
LimitReachedLate(n) == config.MaxRanges > 0 /\ n > config.MaxRanges

LimitReached(n) == config.MaxRanges > 0 /\ n >= config.MaxRanges

\* One round of the scan loop of the range engine on the line in hand.
RangeLine(t, sc, line) ==
    LET p == parseLine(line)
    IN  /\ UNCHANGED <<ipMap, parseErrors, initErr, ierr>>
        /\ IF p.err # NoErr
           THEN /\ scan' = [scan EXCEPT ![t] = [sc EXCEPT !.errors =
                       Append(@, [Line |-> sc.lineNum, Err |-> p.err])]]
                /\ Goto(t, "load_scan")
           ELSE /\ scan' = [scan EXCEPT ![t] = [sc EXCEPT !.ranges =
                       Append(@, p.range)]]
                /\ Goto(t, IF LimitReached(Len(sc.ranges) + 1)
                           THEN "load_done" ELSE "load_scan")

\* One round of the scan loop of the exact engine on the line in hand.
ExactLine(t, sc, line) ==
    LET p == exactParseLine(line)
    IN  /\ UNCHANGED <<initErr, ierr>>
        /\ IF p.err # NoErr
           THEN /\ parseErrors' = Append(parseErrors,
                                         [Line |-> sc.lineNum, Err |-> p.err])
                /\ scan' = [scan EXCEPT ![t] = sc]
                /\ Goto(t, "load_scan")
                /\ UNCHANGED ipMap
           ELSE /\ ipMap' = SetKey(ipMap, p.ipNum, p.code)
                /\ scan' = [scan EXCEPT ![t] = [sc EXCEPT !.processed = @ + 1]]
                /\ Goto(t, IF LimitReached(sc.processed + 1)
                           THEN "load_done" ELSE "load_scan")
                /\ UNCHANGED parseErrors

\* scanner.Scan() and the body of the loop, once.
LoadScan(t) ==
    /\ pc[t] = "load_scan"
    /\ IF scan[t].lineNum = Len(scan[t].src)
       THEN \* Scan() returns false: end of file, or the read failed
            /\ scan' = [scan EXCEPT ![t].scanErr = scan[t].ioErr]
            /\ Goto(t, "load_done")
            /\ UNCHANGED <<ipMap, parseErrors, initErr, ierr>>
       ELSE \E done \in CtxDone(ctx[t]) :
            IF done
            THEN /\ LoadFail(t, "context canceled")
                 /\ UNCHANGED <<scan, ipMap, parseErrors>>
            ELSE LET sc == [scan[t] EXCEPT !.lineNum = @ + 1]
                     line == sc.src[sc.lineNum]
                 IN  IF Len(line) = 0 \/ (config.SkipHeader /\ sc.lineNum = 1)
                     THEN /\ scan' = [scan EXCEPT ![t] = sc]
                          /\ Goto(t, "load_scan")
                          /\ UNCHANGED <<ipMap, parseErrors, initErr, ierr>>
                     ELSE IF kind = "range"
                     THEN RangeLine(t, sc, line)
                     ELSE ExactLine(t, sc, line)
    /\ UNCHANGED <<envVars, sideVars, file, ranges, stats, initialized, lockVars,
                   cacheVars, cmu, argVars, ipNum, entry, ret, calls, loads, log>>

\* After the loop: scanner.Err(), then the range engine sorts, validates
\* and commits, the exact engine records its stats; the flag is set.
LoadDone(t) ==
    /\ pc[t] = "load_done"
    /\ IF scan[t].scanErr
       THEN /\ LoadFail(t, "scanner error")
            /\ UNCHANGED <<ranges, stats, initialized>>
       ELSE IF kind = "range"
       THEN \E sorted \in SortSlice(scan[t].ranges) :
            IF validateRanges(sorted) # NoErr
            THEN /\ LoadFail(t, "range validation failed")
                 /\ UNCHANGED <<ranges, stats, initialized>>
            ELSE /\ ranges' = sorted
                 /\ stats' = [TotalRanges |-> Len(scan[t].ranges),
                              FileSize |-> scan[t].size]
                 /\ initialized' = 1
                 /\ ierr' = [ierr EXCEPT ![t] = NoErr]
                 /\ UNCHANGED initErr
                 /\ Goto(t, "init_unlock")
       ELSE /\ stats' = [TotalRanges |-> Cardinality(DOMAIN ipMap),
                         FileSize |-> scan[t].size]
            /\ initialized' = 1
            /\ ierr' = [ierr EXCEPT ![t] = NoErr]
            /\ Goto(t, "init_unlock")
            /\ UNCHANGED <<ranges, initErr>>
    /\ UNCHANGED <<envVars, sideVars, file, ipMap, parseErrors, lockVars, cacheVars, cmu,
                   argVars, ipNum, entry, scan, ret, calls, loads, log>>

\* The deferred mu.Unlock() and the return of initializeWithContext.
\* Mutant: the deferred Unlock is missing, the lock stays with its holder.
UnlockMissing(holder) == holder

\* The holder of the exclusive lock after mu.Unlock().
Unlock(holder) == NoThread

InitUnlock(t) ==
    /\ pc[t] = "init_unlock"
    /\ wholder' = Unlock(wholder)
    /\ UNCHANGED <<envVars, sideVars, file, dataVars, initialized, initErr, readers,
                   cacheVars, cmu, calls, loads>>
    /\ AfterInit(t, ierr[t])

(***************************************************************************)
(* lruCache.get, put and clear: taking c.mu is one step, the body with     *)
(* the deferred unlock the next.  The key is ipNum[t], the value entry[t]. *)
(***************************************************************************)
CacheOps == {"get", "put", "clear"}

\* Mutant: the deferred c.mu.Unlock() is missing.
CacheUnlockMissing(holder) == holder

\* The holder of the cache mutex after the deferred c.mu.Unlock().
CacheUnlock(holder) == NoThread

CacheGetLock(t) ==
    /\ pc[t] = "get_lock"
    /\ cmu = NoThread
    /\ cmu' = t
    /\ Goto(t, "get_body")
    /\ UNCHANGED <<envVars, sideVars, file, dataVars, initialized, initErr, lockVars,
                   cacheVars, argVars, ipNum, entry, ierr, scan, ret,
                   calls, loads, log>>

\* Mutant: a get that finds its key is counted as a miss.
CountGetAsMiss(h, m, hit) == [hits |-> h, misses |-> m + 1]

\* The counters after a get that found its key (hit) or did not.
CountGet(h, m, hit) ==
    IF hit THEN [hits |-> h + 1, misses |-> m] ELSE [hits |-> h, misses |-> m + 1]

CacheGet(t) ==
    /\ pc[t] = "get_body"
    /\ cmu' = CacheUnlock(cmu)
    /\ LET key == ipNum[t]
           hit == key \in DOMAIN items
           e == IF hit THEN items[key] ELSE NoEntry
       IN  /\ evictList' = IF hit THEN MoveToFront(evictList, key) ELSE evictList
           /\ hits' = CountGet(hits, misses, hit).hits
           /\ misses' = CountGet(hits, misses, hit).misses
           /\ UNCHANGED items
           /\ IF op[t] \in CacheOps
              THEN /\ Done(t, Result(t, IF hit THEN "hit" ELSE "miss",
                                     IF hit THEN e.code ELSE ""))
              ELSE /\ entry' = [entry EXCEPT ![t] = e]
                   /\ Goto(t, IF hit THEN "runlock" ELSE "find_search")
                   /\ log' = Log([ev |-> "get", t |-> t, key |-> key, hit |-> hit,
                                    hits |-> hits', misses |-> misses'])
                   /\ UNCHANGED <<argVars, ipNum, ierr, scan, ret>>
    /\ UNCHANGED <<envVars, sideVars, file, dataVars, initialized, initErr, lockVars,
                   calls, loads>>

CachePutLock(t) ==
    /\ pc[t] = "put_lock"
    /\ cmu = NoThread
    /\ cmu' = t
    /\ Goto(t, "put_body")
    /\ UNCHANGED <<envVars, sideVars, file, dataVars, initialized, initErr, lockVars,
                   cacheVars, argVars, ipNum, entry, ierr, scan, ret,
                   calls, loads, log>>

CachePut(t) ==
    /\ pc[t] = "put_body"
    /\ cmu' = CacheUnlock(cmu)
    /\ LET c == cachePut([items |-> items, evictList |-> evictList],
                         config.CacheSize, ipNum[t], entry[t])
       IN  /\ items' = c.items
           /\ evictList' = c.evictList
    /\ UNCHANGED <<hits, misses>>
    /\ IF op[t] \in CacheOps
       THEN Done(t, Result(t, "stored", ""))
       ELSE /\ Goto(t, "runlock")
            /\ log' = Log([ev |-> "put", t |-> t, key |-> ipNum[t],
                            found |-> entry[t].found])
            /\ UNCHANGED <<argVars, ipNum, entry, ierr, scan, ret>>
    /\ UNCHANGED <<envVars, sideVars, file, dataVars, initialized, initErr, lockVars,
                   calls, loads>>

CacheClearLock(t) ==
    /\ pc[t] = "clear_lock"
    /\ cmu = NoThread
    /\ cmu' = t
    /\ Goto(t, "clear_body")
    /\ UNCHANGED <<envVars, sideVars, file, dataVars, initialized, initErr, lockVars,
                   cacheVars, argVars, ipNum, entry, ierr, scan, ret,
                   calls, loads, log>>

\* Mutant: clear resets the counters and leaves the entries.
clearedKeep(c) == c

\* The index and the list after c.items = make(...), c.evictList.Init().
cleared(c) == [items |-> EmptyMap, evictList |-> <<>>]

\* clear under c.mu up to the first of its two stores: the entries are
\* dropped and hits is stored as 0; misses still holds its old value.
CacheClear(t) ==
    /\ pc[t] = "clear_body"
    /\ LET c == cleared([items |-> items, evictList |-> evictList])
       IN  /\ items' = c.items
           /\ evictList' = c.evictList
    /\ hits' = 0
    /\ Goto(t, "clear_misses")
    /\ log' = Log([ev |-> "clear", t |-> t, hits |-> hits', misses |-> misses])
    /\ UNCHANGED <<envVars, sideVars, file, dataVars, initialized, initErr, lockVars,
                   misses, cmu, argVars, ipNum, entry, ierr, scan, ret,
                   calls, loads>>

\* The second store of clear, misses = 0, and its return.
CacheClearMisses(t) ==
    /\ pc[t] = "clear_misses"
    /\ misses' = 0
    /\ cmu' = CacheUnlock(cmu)
    /\ UNCHANGED <<envVars, sideVars, file, dataVars, initialized, initErr, lockVars,
                   items, evictList, hits, calls, loads>>
    /\ IF op[t] \in CacheOps
       THEN Done(t, Result(t, "cleared", ""))
       ELSE /\ Goto(t, "init_fast")
            /\ log' = Log([ev |-> "clear", t |-> t, hits |-> hits, misses |-> misses'])
            /\ UNCHANGED <<argVars, ipNum, entry, ierr, scan, ret>>

\* Mutant: RLock is granted whatever the state of the lock.
MayRLockAlways(holder) == TRUE

\* mu.RLock() is granted when no writer holds or has requested the lock.
MayRLock(holder) == holder = NoThread

(***************************************************************************)
(* Get*WithContext after initialization, and findCountryForIP.             *)
(***************************************************************************)
RLock(t) ==
    /\ pc[t] = "rlock"
    /\ MayRLock(wholder)
    /\ readers' = readers \cup {t}
    /\ Goto(t, "get_lock")
    /\ UNCHANGED <<envVars, sideVars, file, dataVars, initialized, initErr, wholder,
                   cacheVars, cmu, argVars, ipNum, entry, ierr, scan, ret,
                   calls, loads, log>>

\* The search that follows a cache miss; its result is then put.
FindSearch(t) ==
    /\ pc[t] = "find_search"
    /\ entry' = [entry EXCEPT ![t] =
           IF kind = "range" THEN rangeSearch(ranges, ipNum[t])
           ELSE exactSearch(ipMap, ipNum[t])]
    /\ Goto(t, "put_lock")
    /\ log' = Log([ev |-> "search", t |-> t, key |-> ipNum[t]])
    /\ UNCHANGED <<envVars, sideVars, file, dataVars, initialized, initErr, lockVars,
                   cacheVars, cmu, argVars, ipNum, ierr, scan, ret,
                   calls, loads>>

\* What Get*WithContext returns for the entry findCountryForIP ended with.
Outcome(t) ==
    IF entry[t].found
    THEN Result(t, "code", IF op[t] = "GetCountry" THEN entry[t].country
                           ELSE entry[t].code)
    ELSE Result(t, "notfound", "")

\* The deferred unlock and the return: RUnlock for a lookup, Unlock for
\* ReloadWithContext.
Return(t) ==
    /\ pc[t] \in {"runlock", "reload_ret"}
    /\ UNCHANGED <<envVars, sideVars, file, dataVars, initialized, initErr, cacheVars,
                   cmu, calls, loads>>
    /\ IF pc[t] = "runlock"
       THEN /\ readers' = readers \ {t}
            /\ UNCHANGED wholder
            /\ Done(t, Outcome(t))
       ELSE /\ wholder' = NoThread
            /\ UNCHANGED readers
            /\ Done(t, Result(t, IF ierr[t] = NoErr THEN "ok" ELSE "reloaderr",
                              ierr[t]))

(***************************************************************************)
(* ReloadWithContext.                                                      *)
(***************************************************************************)
ReloadLock(t) ==
    /\ pc[t] = "reload_lock"
    /\ wholder = NoThread
    /\ wholder' = t
    /\ Goto(t, "reload_wait")
    /\ UNCHANGED <<envVars, sideVars, file, dataVars, initialized, initErr, readers,
                   cacheVars, cmu, argVars, ipNum, entry, ierr, scan, ret,
                   calls, loads, log>>

\* mu.Lock() returns; the flag, the dataset and the error are reset, and
\* cache.clear() is called next.
ReloadReset(t) ==
    /\ pc[t] = "reload_wait"
    /\ readers = {}
    /\ initialized' = 0
    /\ ranges' = IF kind = "range" THEN <<>> ELSE ranges
    /\ ipMap' = IF kind = "exact" THEN EmptyMap ELSE ipMap
    /\ initErr' = NoErr
    /\ Goto(t, "clear_lock")
    /\ UNCHANGED <<envVars, sideVars, file, parseErrors, stats, lockVars, cacheVars, cmu,
                   argVars, ipNum, entry, ierr, scan, ret, calls, loads, log>>

(***************************************************************************)
(* The calls.                                                              *)
(***************************************************************************)
Ctxs == {"background", "cancellable"}

Call(t, o, s, c, first) ==
    /\ pc[t] = "idle"
    /\ calls < MaxCalls
    /\ calls' = calls + 1
    /\ op' = [op EXCEPT ![t] = o]
    /\ ipStr' = [ipStr EXCEPT ![t] = s]
    /\ ctx' = [ctx EXCEPT ![t] = c]
    /\ ret' = [ret EXCEPT ![t] = NoRet]
    /\ Goto(t, first)
    /\ log' = Log([ev |-> "call", t |-> t, op |-> o, ip |-> s,
                   hits |-> hits, misses |-> misses])
    /\ UNCHANGED <<envVars, sideVars, file, dataVars, initialized, initErr, lockVars,
                   cacheVars, cmu, ipNum, entry, ierr, scan, loads>>

\* The address strings the callers look up.
LookupStrs == {Dec(2), Dot(4), Junk}

GetCountry(t) ==
    \E s \in LookupStrs, c \in Ctxs : Call(t, "GetCountry", s, c, "init_fast")

GetCountryCode(t) ==
    \E s \in LookupStrs, c \in Ctxs : Call(t, "GetCountryCode", s, c, "init_fast")

Reload(t) ==
    \E c \in Ctxs : Call(t, "Reload", Junk, c, "reload_lock")

(***************************************************************************)
(* The source files of the concurrent specification: two valid, disjoint   *)
(* datasets A and B, a file whose ranges touch, and no file at all.        *)
(***************************************************************************)
File(lines) == [exists |-> TRUE, lines |-> lines, ioErr |-> FALSE]

NoFile == [exists |-> FALSE, lines |-> <<>>, ioErr |-> FALSE]

RangesA ==
    File(<< <<Dec(3), Dec(4), Txt("CN")>>, <<Dec(0), Dec(1), Txt("AU")>> >>)

RangesB ==
    File(<< <<Dot(1), Dot(2), Txt("US")>>, <<Dec(4), Dec(4), Txt("DE")>> >>)

RangesTouch ==
    File(<< <<Dec(0), Dec(3), Txt("AU")>>, <<Dec(3), Dec(4), Txt("CN")>> >>)

PointsA == File(<< <<Dec(0), Txt("AU")>>, <<Dec(4), Txt("CN")>> >>)

PointsB == File(<< <<Dot(1), Txt("US")>>, <<Dec(4), Txt("DE")>> >>)

Sources(k) ==
    IF k = "range" THEN {RangesA, RangesB, RangesTouch, NoFile}
    ELSE {PointsA, PointsB, NoFile}

\* The environment replaces the source file.  The engine sees the file only
\* when it opens it, so the change is taken when a load is about to open.
ChangeSource ==
    /\ \E t \in Threads : pc[t] = "load_open"
    /\ \E f \in Sources(kind) \ {file} : file' = f
    /\ UNCHANGED <<envVars, sideVars, dataVars, initialized, initErr, lockVars, cacheVars,
                   cmu, pc, argVars, ipNum, entry, ierr, scan, ret, calls,
                   loads, log>>

SpecConfig ==
    newConfig([MaxFileSize |-> 0, MaxRanges |-> 0, SkipHeader |-> FALSE,
               CacheSize |-> CacheCap])

(***************************************************************************)
(* Spec: threads calling GetCountry, GetCountryCode and Reload on one      *)
(* engine, of either kind, while the source file changes.                  *)
(***************************************************************************)
Init ==
    /\ kind \in {"range", "exact"}
    /\ config = SpecConfig
    /\ file \in Sources(kind)
    /\ recording = FALSE
    /\ InitEngine
    /\ InitCache
    /\ InitThreads
    /\ NoValidate

Step(t) ==
    \/ GetCountry(t)
    \/ GetCountryCode(t)
    \/ Reload(t)
    \/ InitFast(t)
    \/ InitFastErr(t)
    \/ InitLock(t)
    \/ InitAcquire(t)
    \/ LoadOpen(t)
    \/ LoadScan(t)
    \/ LoadDone(t)
    \/ InitUnlock(t)
    \/ RLock(t)
    \/ CacheGetLock(t)
    \/ CacheGet(t)
    \/ FindSearch(t)
    \/ CachePutLock(t)
    \/ CachePut(t)
    \/ Return(t)
    \/ ReloadLock(t)
    \/ ReloadReset(t)
    \/ CacheClearLock(t)
    \/ CacheClear(t)
    \/ CacheClearMisses(t)

Next == ChangeSource \/ \E t \in Threads : Step(t)

Spec == Init /\ [][Next]_vars

(***************************************************************************)
(* SpecFind: one caller looking addresses up on a Ready engine, from an    *)
(* empty cache, for every committed dataset within the bounds.             *)
(***************************************************************************)
\* Number of lookups in a behaviour of SpecFind.
MaxLookups == 2

Codes == {"AU", "CN"}

AllRanges == {IPRange(s, e, c) : s \in IPs, e \in IPs, c \in Codes}

\* The collections initializeWithContext can commit: sorted by start,
\* valid, no two adjacent ranges overlapping.
Committable ==
    {rs \in UNION {[1..n -> AllRanges] : n \in 0..MaxLines} :
        /\ \A i \in 1..Len(rs) : Validate(rs[i]) = NoErr
        /\ rs \in SortSlice(rs)
        /\ validateRanges(rs) = NoErr}

\* The maps the exact engine can commit from a file of MaxLines lines.
CommittableMaps ==
    UNION {[D -> Codes] : D \in {X \in SUBSET IPs : Cardinality(X) <= MaxLines}}

\* A file the range collection rs is loaded from.
FileOfRanges(rs) ==
    File([i \in 1..Len(rs) |->
            <<Dec(rs[i].StartIP), Dec(rs[i].EndIP), Txt(rs[i].Code)>>])

InitFind ==
    /\ kind \in {"range", "exact"}
    /\ config = SpecConfig
    /\ recording = TRUE
    /\ IF kind = "range"
       THEN /\ ranges \in Committable
            /\ ipMap = EmptyMap
            /\ file = FileOfRanges(ranges)
            /\ stats = [TotalRanges |-> Len(ranges), FileSize |-> Len(ranges)]
       ELSE /\ ranges = <<>>
            /\ ipMap \in CommittableMaps
            /\ file = NoFile
            /\ stats = [TotalRanges |-> Cardinality(DOMAIN ipMap),
                        FileSize |-> Cardinality(DOMAIN ipMap)]
    /\ parseErrors = <<>>
    /\ initialized = 1
    /\ initErr = NoErr
    /\ wholder = NoThread
    /\ readers = {}
    /\ InitCache
    /\ InitThreads
    /\ NoValidate

FindStrs == {Dec(n) : n \in IPs} \cup {Dot(MaxIP)}

Lookup(t) ==
    /\ calls < MaxLookups
    /\ \E o \in LookupOps, s \in FindStrs : Call(t, o, s, "background", "init_fast")

NextFind ==
    \/ Lookup(1)
    \/ InitFast(1)
    \/ InitFastErr(1)
    \/ RLock(1)
    \/ CacheGetLock(1)
    \/ CacheGet(1)
    \/ FindSearch(1)
    \/ CachePutLock(1)
    \/ CachePut(1)
    \/ Return(1)

SpecFind == InitFind /\ [][NextFind]_vars

(***************************************************************************)
(* Reference definitions the claims are stated with.                       *)
(***************************************************************************)
\* Linear scan: the ranges of rs that hold ip.
Holding(rs, ip) == {i \in 1..Len(rs) : rs[i].StartIP <= ip /\ ip <= rs[i].EndIP}

\* The answer of a linear scan of rs for ip: <<"code", c>> or <<"notfound", "">>.
LinearScan(rs, ip) ==
    IF Holding(rs, ip) = {} THEN <<"notfound", "">>
    ELSE <<"code", rs[CHOOSE i \in Holding(rs, ip) : TRUE].Code>>

\* The numeric address a returned lookup was made for.
AddrOf(r) == parseIP(r.ip).num

IsLookup(r) == r.op \in LookupOps

Answered(r) == r.kind \in {"code", "notfound"}

\* C1: in SpecFind, on the range engine, every lookup returns what a linear
\* scan of the committed, sorted, non-overlapping collection returns for its
\* address: the code of the one range holding it, or not-found.
C1_LookupMatchesLinearScan ==
    \A t \in Threads :
        (kind = "range" /\ IsLookup(ret[t])) =>
            /\ Answered(ret[t])
            /\ Cardinality(Holding(ranges, AddrOf(ret[t]))) <= 1
            /\ <<ret[t].kind, ret[t].val>> = LinearScan(ranges, AddrOf(ret[t]))

\* A first lookup, from the empty cache, of the last address of the second
\* of two ranges returned that range's code.
C1_Witness ==
    \E t \in Threads :
        /\ kind = "range" /\ calls = 1 /\ Len(ranges) = 2
        /\ ret[t].kind = "code"
        /\ AddrOf(ret[t]) = ranges[2].EndIP
        /\ ranges[2].StartIP < ranges[2].EndIP
        /\ ret[t].val = ranges[2].Code

(***************************************************************************)
(* FairSpec: Spec with every thread that can take a step eventually        *)
(* taking one (each goroutine is scheduled; a thread waiting for a lock    *)
(* has no step to take).                                                   *)
(***************************************************************************)
FairSpec == Spec /\ \A t \in Threads : WF_vars(Step(t))

\* C2: every call to Reload / ReloadWithContext eventually returns, having
\* released the engine's exclusive lock.
C2_ReloadReturns ==
    \A t \in Threads : (op[t] = "Reload") ~> (pc[t] = "idle" /\ wholder # t)

\* Thread t returns from a lookup of a well-formed address in this step.
LookupReturns(t) ==
    /\ op[t] \in LookupOps
    /\ pc[t] # "idle"
    /\ pc'[t] = "idle"

\* C3: once a load has succeeded (the flag is 1), a lookup of a well-formed
\* address returns a code or not-found, never an initialization error,
\* whatever happened on the instance before.
C3_NoInitErrorOnceLoaded ==
    [][\A t \in Threads :
          (initialized = 1 /\ LookupReturns(t) /\ parseIP(ipStr[t]).ok)
              => Answered(ret'[t])]_vars

\* C4: a failed load is sticky: while an initialization error is recorded
\* (no Reload has reset it), every lookup that returns fails with an
\* initialization error, and none succeeds.
C4_FailedLoadIsSticky ==
    [][\A t \in Threads :
          (initErr # NoErr /\ LookupReturns(t)) => ret'[t].kind = "initerr"]_vars

\* The answer of the committed dataset for ip.
DatasetAnswer(ip) ==
    IF kind = "range" THEN LinearScan(ranges, ip)
    ELSE IF ip \in DOMAIN ipMap THEN <<"code", ipMap[ip]>>
    ELSE <<"notfound", "">>

Loading == {t \in Threads : pc[t] \in {"load_open", "load_scan", "load_done"}}

\* C5: no two loads are ever in progress together; and as long as no load
\* has failed and Reload is not called, the load pipeline runs at most once,
\* exactly once when a lookup has been answered, and every lookup of a
\* well-formed address is answered from the dataset that load committed.
C5_LoadsExactlyOnce ==
    /\ Cardinality(Loading) <= 1
    /\ (initErr = NoErr /\ \A t \in Threads : op[t] # "Reload") =>
          /\ loads <= 1
          /\ \A t \in Threads :
                (IsLookup(ret[t]) /\ parseIP(ret[t].ip).ok) =>
                    /\ loads = 1
                    /\ <<ret[t].kind, ret[t].val>> = DatasetAnswer(AddrOf(ret[t]))

\* One thread has returned a code from the single load while the other,
\* having waited for the lock, found the flag set and is about to unlock.
C5_Witness ==
    \E t, u \in Threads :
        /\ t # u
        /\ ret[t].kind = "code"
        /\ pc[u] = "init_unlock" /\ wholder = u /\ initialized = 1
        /\ loads = 1 /\ initErr = NoErr

\* What a committed source file answers for ip.
AnswersOf(f, ip) ==
    IF kind = "range"
    THEN {p.range.Code : p \in {parseLine(f.lines[i]) : i \in 1..Len(f.lines)}
                               \cap {q \in {parseLine(f.lines[i]) : i \in 1..Len(f.lines)} :
                                       q.err = NoErr /\ q.range.StartIP <= ip
                                                     /\ ip <= q.range.EndIP}}
    ELSE {p.code : p \in {q \in {exactParseLine(f.lines[i]) : i \in 1..Len(f.lines)} :
                              q.err = NoErr /\ q.ipNum = ip}}

DatasetA == IF kind = "range" THEN RangesA ELSE PointsA

DatasetB == IF kind = "range" THEN RangesB ELSE PointsB

FailedWith(e) ==
    /\ ranges = <<>> /\ ipMap = EmptyMap
    /\ items = EmptyMap /\ evictList = <<>> /\ hits = 0 /\ misses = 0
    /\ initialized = 0
    /\ e # NoErr /\ initErr = e

\* C7: a Reload that has reset the engine returns, and when its load failed
\* it leaves the engine Failed: no dataset, an empty cache with zero
\* counters, the flag 0 and the load's error recorded.
C7_FailedReloadLeavesFailed ==
    \A t \in Threads :
        (op[t] = "Reload" /\ pc[t] = "init_fast") ~>
            (pc[t] = "idle" /\ (ret[t].kind = "reloaderr" => FailedWith(ret[t].val)))

(***************************************************************************)
(* The log of SpecFind: per lookup a "call", a "get", on a miss a "search" *)
(* and a "put", and a "ret" with the counters at the return.               *)
(***************************************************************************)
Rets == {i \in 1..Len(log) : log[i].ev = "ret"}

\* The call event of the lookup that returns at log index j.
CallOf(j) ==
    CHOOSE c \in 1..j :
        log[c].ev = "call" /\ \A k \in (c + 1)..j : log[k].ev # "call"

\* The events of kind e of the lookup that returns at log index j.
EventsOf(j, e) == {k \in CallOf(j)..j : log[k].ev = e}

\* Lookups i and j are consecutive: no call returns between them.
Consecutive(i, j) == i < j /\ \A k \in (i + 1)..(j - 1) : k \notin Rets

\* C8: of two consecutive lookups of the same address that reach the cache,
\* the second returns what the first returned; the first, when its get
\* missed, raised the miss counter by one and stored an entry for the
\* address, found or not as it returned; the second is a single cache hit,
\* with no search and no put, the hit counter raised by one and the miss
\* counter as it was.
C8_CacheTransparency ==
    \A i, j \in Rets :
        (Consecutive(i, j) /\ log[i].key = log[j].key /\ Answered(log[i].r)) =>
            /\ log[j].r.kind = log[i].r.kind
            /\ log[j].r.val = log[i].r.val
            /\ \A g \in EventsOf(i, "get") :
                  ~log[g].hit =>
                      /\ log[i].misses = log[CallOf(i)].misses + 1
                      /\ log[i].hits = log[CallOf(i)].hits
                      /\ \E p \in EventsOf(i, "put") :
                            /\ log[p].key = log[i].key
                            /\ log[p].found = (log[i].r.kind = "code")
            /\ Cardinality(EventsOf(j, "get")) = 1
            /\ \A g \in EventsOf(j, "get") : log[g].hit
            /\ EventsOf(j, "search") = {}
            /\ EventsOf(j, "put") = {}
            /\ log[j].hits = log[i].hits + 1
            /\ log[j].misses = log[i].misses

\* Two consecutive lookups of an address the dataset does not resolve both
\* returned not-found, the first after a miss, the second from the cache.
C8_Witness ==
    \E i, j \in Rets :
        /\ Consecutive(i, j) /\ log[i].key = log[j].key
        /\ log[i].r.kind = "notfound" /\ log[j].r.kind = "notfound"
        /\ log[i].misses = 1 /\ log[i].hits = 0
        /\ log[j].misses = 1 /\ log[j].hits = 1

(***************************************************************************)
(* SpecCache: threads calling get, put and clear on one lruCache.  The     *)
(* log holds a "ret" per call, in the order the bodies ran under c.mu.     *)
(***************************************************************************)
\* Number of cache calls in a behaviour of SpecCache.
MaxCacheOps == 4

CacheKeys == 0..CacheCap

\* The values put under key k: a found entry and, for key 0, a not-found one.
CacheValues(k) ==
    {cacheEntry(k, "AU", "AU", TRUE)} \cup
    (IF k = 0 THEN {cacheEntry(k, "", "", FALSE)} ELSE {})

CacheCall(t, o, k, v, first) ==
    /\ pc[t] = "idle"
    /\ calls < MaxCacheOps
    /\ calls' = calls + 1
    /\ op' = [op EXCEPT ![t] = o]
    /\ ipNum' = [ipNum EXCEPT ![t] = k]
    /\ entry' = [entry EXCEPT ![t] = v]
    /\ ret' = [ret EXCEPT ![t] = NoRet]
    /\ Goto(t, first)
    /\ UNCHANGED <<envVars, sideVars, file, dataVars, initialized, initErr, lockVars,
                   cacheVars, cmu, ipStr, ctx, ierr, scan, loads, log>>

Get(t) == \E k \in CacheKeys : CacheCall(t, "get", k, NoEntry, "get_lock")

Put(t) ==
    \E k \in CacheKeys : \E v \in CacheValues(k) : CacheCall(t, "put", k, v, "put_lock")

Clear(t) == CacheCall(t, "clear", 0, NoEntry, "clear_lock")

InitCacheOnly ==
    /\ kind = "range"
    /\ \E size \in 0..CacheCap :
          config = newConfig([MaxFileSize |-> 0, MaxRanges |-> 0,
                              SkipHeader |-> FALSE, CacheSize |-> size])
    /\ file = NoFile
    /\ recording = TRUE
    /\ InitEngine
    /\ InitCache
    /\ InitThreads
    /\ NoValidate

CacheStep(t) ==
    \/ Get(t)
    \/ Put(t)
    \/ Clear(t)
    \/ CacheGetLock(t)
    \/ CacheGet(t)
    \/ CachePutLock(t)
    \/ CachePut(t)
    \/ CacheClearLock(t)
    \/ CacheClear(t)
    \/ CacheClearMisses(t)

NextCache == \E t \in Threads : CacheStep(t)

SpecCache == InitCacheOnly /\ [][NextCache]_vars

\* The log index of the last clear (where it dropped the entries), 0 when
\* there was none.
LastClear ==
    LET cs == {i \in 1..Len(log) : log[i].ev = "clear"}
    IN  IF cs = {} THEN 0 ELSE CHOOSE i \in cs : \A j \in cs : j <= i

\* The log indices after the last clear at which key k was touched (a get
\* that found it or a put) or, with kinds = {"stored"}, put.
TouchesOf(k, kinds) ==
    {i \in Rets : i > LastClear /\ log[i].key = k /\ log[i].r.kind \in kinds}

\* The greatest element of a set of log indices, 0 for the empty set.
Latest(is) == IF is = {} THEN 0 ELSE CHOOSE i \in is : \A j \in is : j <= i

\* C9: the cache holds exactly the capacity most recently touched keys, in
\* the order of their last touch, most recent first, each with the value of
\* its last put: a put of a new key into a full cache has removed the one
\* entry touched longest ago and no other, and the new key is the most
\* recently used.
C9_EvictsLeastRecentlyUsed ==
    LET LastTouch == [k \in CacheKeys |-> Latest(TouchesOf(k, {"hit", "stored"}))]
        LastPut == [k \in CacheKeys |-> Latest(TouchesOf(k, {"stored"}))]
        Touched == {k \in CacheKeys : LastTouch[k] > 0}
        Newer == [k \in CacheKeys |->
                     Cardinality({j \in Touched : LastTouch[j] > LastTouch[k]})]
    IN  /\ DOMAIN items = {k \in Touched : Newer[k] < config.CacheSize}
        /\ Len(evictList) = Cardinality(DOMAIN items)
        /\ \A k \in DOMAIN items :
              /\ evictList[Newer[k] + 1] = k
              /\ items[k] = log[LastPut[k]].entry

\* Capacity 2: put a, put b, a get that finds a, put c: b, not a, is gone.
C9_Witness ==
    /\ config.CacheSize = 2
    /\ Len(log) = 4
    /\ Rets = 1..4
    /\ log[1].r.kind = "stored" /\ log[2].r.kind = "stored"
    /\ log[3].r.kind = "hit" /\ log[4].r.kind = "stored"
    /\ log[3].key = log[1].key
    /\ Cardinality({log[1].key, log[2].key, log[4].key}) = 3
    /\ DOMAIN items = {log[1].key, log[4].key}
    /\ evictList = <<log[4].key, log[1].key>>

(***************************************************************************)
(* Stats and GetParseErrors: a copy under the shared lock; Stats then      *)
(* reads the two cache counters, one atomic load each, with no lock held.  *)
(* What the call returned stays in snap.                                   *)
(***************************************************************************)
\* Number of Stats and GetParseErrors calls in a behaviour.
MaxStatCalls == 1

SnapOps == {"Stats", "GetParseErrors"}

SnapCall(t, o) ==
    /\ pc[t] = "idle"
    /\ statCalls < MaxStatCalls
    /\ statCalls' = statCalls + 1
    /\ op' = [op EXCEPT ![t] = o]
    /\ snap' = [snap EXCEPT ![t] = NoSnap]
    /\ ret' = [ret EXCEPT ![t] = NoRet]
    /\ Goto(t, "snap_rlock")
    /\ UNCHANGED <<envVars, file, dataVars, initialized, initErr, lockVars,
                   cacheVars, cmu, ipStr, ctx, ipNum, entry, ierr, scan, calls,
                   loads, log, validateIn, validateOut>>

Stats(t) == SnapCall(t, "Stats")

\* Only the exact engine has GetParseErrors.
GetParseErrors(t) == kind = "exact" /\ SnapCall(t, "GetParseErrors")

SnapRLock(t) ==
    /\ pc[t] = "snap_rlock"
    /\ MayRLock(wholder)
    /\ readers' = readers \cup {t}
    /\ Goto(t, "snap_copy")
    /\ UNCHANGED <<envVars, sideVars, file, dataVars, initialized, initErr, wholder,
                   cacheVars, cmu, argVars, ipNum, entry, ierr, scan, ret,
                   calls, loads, log>>

\* s := db.stats, respectively copy(errorsCopy, m.parseErrors).
SnapCopy(t) ==
    /\ pc[t] = "snap_copy"
    /\ snap' = [snap EXCEPT ![t] =
           IF op[t] = "Stats" THEN [@ EXCEPT !.stats = stats]
           ELSE [@ EXCEPT !.errors = parseErrors]]
    /\ Goto(t, "snap_runlock")
    /\ UNCHANGED <<envVars, statCalls, validateIn, validateOut, file, dataVars,
                   initialized, initErr, lockVars, cacheVars, cmu, argVars,
                   ipNum, entry, ierr, scan, ret, calls, loads, log>>

\* RUnlock: GetParseErrors returns; Stats goes on to cache.getStats().
SnapRUnlock(t) ==
    /\ pc[t] = "snap_runlock"
    /\ readers' = readers \ {t}
    /\ UNCHANGED <<envVars, sideVars, file, dataVars, initialized, initErr, wholder,
                   cacheVars, cmu, calls, loads>>
    /\ IF op[t] = "Stats"
       THEN /\ Goto(t, "stats_hits")
            /\ UNCHANGED <<argVars, ipNum, entry, ierr, scan, ret, log>>
       ELSE Done(t, Result(t, "errors", ""))

\* getStats: atomic.LoadInt64(&c.hits).
StatsHits(t) ==
    /\ pc[t] = "stats_hits"
    /\ snap' = [snap EXCEPT ![t].hits = hits]
    /\ Goto(t, "stats_misses")
    /\ UNCHANGED <<envVars, statCalls, validateIn, validateOut, file, dataVars,
                   initialized, initErr, lockVars, cacheVars, cmu, argVars,
                   ipNum, entry, ierr, scan, ret, calls, loads, log>>

\* getStats: atomic.LoadInt64(&c.misses); Stats returns s.
StatsMisses(t) ==
    /\ pc[t] = "stats_misses"
    /\ snap' = [snap EXCEPT ![t].misses = misses]
    /\ UNCHANGED <<envVars, statCalls, validateIn, validateOut, file, dataVars,
                   initialized, initErr, lockVars, cacheVars, cmu, calls, loads>>
    /\ Done(t, Result(t, "stats", ""))

SnapStep(t) ==
    \/ Stats(t)
    \/ GetParseErrors(t)
    \/ SnapRLock(t)
    \/ SnapCopy(t)
    \/ SnapRUnlock(t)
    \/ StatsHits(t)
    \/ StatsMisses(t)

(***************************************************************************)
(* SpecLoad: one caller looking addresses up on an Uninitialized engine,   *)
(* for every source file and limit within the bounds, and calling          *)
(* GetParseErrors on the exact engine.  The file does not change.          *)
(***************************************************************************)
\* Number of lookups in a behaviour of SpecLoad.
MaxLoadCalls == 2

\* The lines of range files: every range start <= end, a range with
\* start > end, a line with a bad address, a blank line, a dotted record.
RangeLines ==
    {<<Dec(a), Dec(b), Txt("AU")>> : a \in IPs, b \in IPs} \cup
    {<<Junk, Dec(1), Txt("AU")>>, <<>>, <<Dot(1), Dot(2), Txt("CN")>>}

\* The lines of exact files.
ExactLines ==
    {<<Dec(a), Txt("AU")>> : a \in IPs} \cup
    {<<Junk, Txt("AU")>>, <<>>, <<Dot(1), Txt("CN")>>, <<Dec(0), Txt("")>>}

LoadFiles(k) ==
    LET L == IF k = "range" THEN RangeLines ELSE ExactLines
        texts == UNION {[1..n -> L] : n \in 0..MaxLines}
    IN  {File(ls) : ls \in texts} \cup {NoFile} \cup
        {[File(ls) EXCEPT !.ioErr = TRUE] : ls \in {x \in texts : Len(x) <= 1}}

\* No limits; a record limit of 1; a header line; a size limit of 1 line.
LoadConfigs ==
    {newConfig([MaxFileSize |-> f, MaxRanges |-> r, SkipHeader |-> h,
                CacheSize |-> CacheCap]) :
        <<f, r, h>> \in {<<0, 0, FALSE>>, <<0, 1, FALSE>>, <<0, 0, TRUE>>,
                         <<1, 0, FALSE>>}}

InitLoad ==
    /\ kind \in {"range", "exact"}
    /\ config \in LoadConfigs
    /\ file \in LoadFiles(kind)
    /\ recording = FALSE
    /\ InitEngine
    /\ InitCache
    /\ InitThreads
    /\ NoValidate

LoadLookup(t) ==
    /\ calls < MaxLoadCalls
    /\ (GetCountry(t) \/ GetCountryCode(t))

NextLoad ==
    \/ LoadLookup(1)
    \/ GetParseErrors(1)
    \/ SnapRLock(1)
    \/ SnapCopy(1)
    \/ SnapRUnlock(1)
    \/ InitFast(1)
    \/ InitFastErr(1)
    \/ InitLock(1)
    \/ InitAcquire(1)
    \/ LoadOpen(1)
    \/ LoadScan(1)
    \/ LoadDone(1)
    \/ InitUnlock(1)
    \/ RLock(1)
    \/ CacheGetLock(1)
    \/ CacheGet(1)
    \/ FindSearch(1)
    \/ CachePutLock(1)
    \/ CachePut(1)
    \/ Return(1)

SpecLoad == InitLoad /\ [][NextLoad]_vars

\* The indices of the lines of the source file that are well-formed range
\* records (not blank, not the skipped header).
RecordLines ==
    {i \in 1..Len(file.lines) :
        /\ Len(file.lines[i]) # 0
        /\ ~(config.SkipHeader /\ i = 1)
        /\ parseLine(file.lines[i]).err = NoErr}

\* The lines a load of the source file takes its records from: the
\* well-formed records, the first MaxRanges of them under a record limit.
ParsedLines ==
    {i \in RecordLines :
        config.MaxRanges = 0 \/
        Cardinality({k \in RecordLines : k < i}) < config.MaxRanges}

RecordAt(i) == parseLine(file.lines[i]).range

\* Ranges a and b share an address.
ShareIP(a, b) == a.StartIP <= b.EndIP /\ b.StartIP <= a.EndIP

\* Two of the parsed records share an address.
RecordsOverlap ==
    \E i, j \in ParsedLines : i # j /\ ShareIP(RecordAt(i), RecordAt(j))

\* The load reads the source file to its end.
SourceReadable ==
    /\ file.exists
    /\ ~file.ioErr
    /\ ~(config.MaxFileSize > 0 /\ FileSize(file) > config.MaxFileSize)

\* C10: in SpecLoad, on the range engine, when two of the records parsed
\* from a readable source share an address, nothing is ever committed (no
\* ranges, flag 0), a load that is not cancelled fails with the range
\* validation error, and every lookup fails with the load's error.
C10_OverlapRejected ==
    (kind = "range" /\ SourceReadable /\ RecordsOverlap) =>
        /\ initialized = 0
        /\ ranges = <<>>
        /\ \A t \in Threads :
              /\ (pc[t] = "init_unlock" /\ ctx[t] = "background")
                    => ierr[t] = "range validation failed"
              /\ pc[t] = "init_unlock"
                    => ierr[t] \in {"range validation failed", "context canceled"}
              /\ IsLookup(ret[t]) =>
                    /\ ret[t].kind = "initerr"
                    /\ ret[t].val \in {"range validation failed", "context canceled"}

\* Two ranges that only touch, the later one first in the file: two
\* lookups have been made, the second failed with the validation error.
C10_Witness ==
    \E t \in Threads :
        /\ kind = "range" /\ SourceReadable /\ Len(file.lines) = 2
        /\ ParsedLines = {1, 2}
        /\ RecordAt(2).EndIP = RecordAt(1).StartIP
        /\ RecordAt(2).StartIP < RecordAt(1).StartIP
        /\ calls = 2
        /\ ret[t].kind = "initerr" /\ ret[t].val = "range validation failed"
        /\ initialized = 0 /\ ranges = <<>> /\ loads = 2

\* The errors of a load aborted part-way: cancellation seen at a record
\* boundary, or a read error of the scanner.
AbortErrors == {"context canceled", "scanner error"}

\* C11: in SpecLoad, in both engines, when a load has been aborted part-way
\* the dataset holds none of the records that load read (no ranges, an
\* empty map), the flag is 0 and the recorded error is the abort's error.
C11_AbortedLoadCommitsNothing ==
    \A t \in Threads :
        (pc[t] = "init_unlock" /\ ierr[t] \in AbortErrors) =>
            /\ ranges = <<>>
            /\ ipMap = EmptyMap
            /\ initialized = 0
            /\ initErr = ierr[t]

(***************************************************************************)
(* SpecValidate: one call of the package function ValidateIPRanges, for    *)
(* every slice of ranges within the bounds, in every order.                *)
(***************************************************************************)
\* Length of the slices given to ValidateIPRanges.
MaxValidate == 3

\* Mutant: the overlap test with > for >=.
OverlapsPreviousStrict(previous, current) == previous.EndIP > current.StartIP

\* The overlap test of the loop of ValidateIPRanges.
OverlapsPrevious(previous, current) == previous.EndIP >= current.StartIP

ValidateOk == [NoOut EXCEPT !.err = NoErr]

\* ValidateIPRanges after the sort: the first range is validated, then each
\* range in turn is validated and compared with the one before it; the
\* first failure is returned (index is 0-based, as in the message).
ValidateSorted(sorted) ==
    IF Len(sorted) = 0 THEN ValidateOk
    ELSE IF Validate(sorted[1]) # NoErr
    THEN [err |-> "invalid range at index", index |-> 0,
          previous |-> sorted[1], current |-> sorted[1]]
    ELSE LET bad == {i \in 2..Len(sorted) :
                        \/ Validate(sorted[i]) # NoErr
                        \/ OverlapsPrevious(sorted[i - 1], sorted[i])}
             i == CHOOSE k \in bad : \A j \in bad : k <= j
         IN  IF bad = {} THEN ValidateOk
             ELSE IF Validate(sorted[i]) # NoErr
             THEN [err |-> "invalid range at index", index |-> i - 1,
                   previous |-> sorted[i], current |-> sorted[i]]
             ELSE [err |-> "overlapping ranges", index |-> i - 1,
                   previous |-> sorted[i - 1], current |-> sorted[i]]

\* ValidateIPRanges: the results the sort, which is not stable, allows.
ValidateIPRanges(rs) == {ValidateSorted(sorted) : sorted \in SortSlice(rs)}

\* The ranges given to ValidateIPRanges: any bounds, with or without a code.
ValidateRanges == {IPRange(a, b, c) : a \in IPs, b \in IPs, c \in {"AU", ""}}

InitValidate ==
    /\ kind = "range"
    /\ config = SpecConfig
    /\ file = NoFile
    /\ recording = FALSE
    /\ InitEngine
    /\ InitCache
    /\ InitThreads
    /\ validateIn \in UNION {[1..n -> ValidateRanges] : n \in 0..MaxValidate}
    /\ validateOut = NoOut

ValidateCall ==
    /\ validateOut = NoOut
    /\ validateOut' \in ValidateIPRanges(validateIn)
    /\ UNCHANGED <<envVars, file, dataVars, initialized, initErr, lockVars,
                   cacheVars, cmu, pc, argVars, ipNum, entry, ierr, scan, ret,
                   calls, loads, log, snap, statCalls, validateIn>>

SpecValidate == InitValidate /\ [][ValidateCall]_vars

\* The reference predicate: every range has start <= end and a code, and
\* no two ranges at different positions share an address.
RefValid(rs) ==
    /\ \A i \in 1..Len(rs) : rs[i].StartIP <= rs[i].EndIP /\ rs[i].Code # ""
    /\ \A i, j \in 1..Len(rs) : i # j => ~ShareIP(rs[i], rs[j])

\* C12: ValidateIPRanges returns no error exactly when the reference
\* predicate holds of its input, whatever the order of the input and of the
\* sort; an invalid-range error is about a range of the input that is
\* invalid, an overlap error about two ranges of the input that share an
\* address.
C12_ValidateAgreesWithReference ==
    validateOut # NoOut =>
        /\ (validateOut.err = NoErr) <=> RefValid(validateIn)
        /\ validateOut.err = "invalid range at index" =>
              \E i \in 1..Len(validateIn) :
                  /\ validateIn[i] = validateOut.current
                  /\ ~RefValid(<<validateIn[i]>>)
        /\ validateOut.err = "overlapping ranges" =>
              \E i, j \in 1..Len(validateIn) :
                  /\ i # j
                  /\ validateIn[i] = validateOut.previous
                  /\ validateIn[j] = validateOut.current
                  /\ ShareIP(validateIn[i], validateIn[j])

\* Three valid ranges given out of order, the last two touching after the
\* sort: rejected as overlapping.
C12_Witness ==
    /\ Len(validateIn) = 3
    /\ \A i \in 1..3 : RefValid(<<validateIn[i]>>)
    /\ validateIn[1].StartIP > validateIn[2].StartIP
    /\ validateOut.err = "overlapping ranges"
    /\ validateOut.index = 2
    /\ validateOut.previous.EndIP = validateOut.current.StartIP

(***************************************************************************)
(* SpecStats: threads calling lookups, Reload and Stats on one engine      *)
(* whose source is dataset A, with the log kept: every change of a cache   *)
(* counter is in the log with the values the two counters then hold.       *)
(***************************************************************************)
InitStats ==
    /\ kind \in {"range", "exact"}
    /\ config = SpecConfig
    /\ file = DatasetA
    /\ recording = TRUE
    /\ InitEngine
    /\ InitCache
    /\ InitThreads
    /\ NoValidate

\* The calls of SpecStats: lookups of one address, Reload, Stats.
StatsLookup(t) == Call(t, "GetCountryCode", Dot(4), "background", "init_fast")

StatsReload(t) == Call(t, "Reload", Junk, "background", "reload_lock")

StatsStep(t) ==
    \/ StatsLookup(t)
    \/ StatsReload(t)
    \/ Stats(t)
    \/ SnapRLock(t)
    \/ SnapCopy(t)
    \/ SnapRUnlock(t)
    \/ StatsHits(t)
    \/ StatsMisses(t)
    \/ InitFast(t)
    \/ InitFastErr(t)
    \/ InitLock(t)
    \/ InitAcquire(t)
    \/ LoadOpen(t)
    \/ LoadScan(t)
    \/ LoadDone(t)
    \/ InitUnlock(t)
    \/ RLock(t)
    \/ CacheGetLock(t)
    \/ CacheGet(t)
    \/ FindSearch(t)
    \/ CachePutLock(t)
    \/ CachePut(t)
    \/ Return(t)
    \/ ReloadLock(t)
    \/ ReloadReset(t)
    \/ CacheClearLock(t)
    \/ CacheClear(t)
    \/ CacheClearMisses(t)

NextStats == \E t \in Threads : StatsStep(t)

SpecStats == InitStats /\ [][NextStats]_vars

\* The pairs (hits, misses) the two counters have held together: zero at
\* construction, and the pair after every get and every store of clear.
PairsHeld ==
    {<<0, 0>>} \cup
    {<<log[i].hits, log[i].misses>> :
        i \in {j \in 1..Len(log) : log[j].ev \in {"get", "clear"}}}

\* C13: the pair (CacheHits, CacheMisses) a Stats call returned is a pair
\* the two counters held together at some instant of the execution.
C13_StatsIsSnapshot ==
    \A t \in Threads :
        ret[t].op = "Stats" => <<snap[t].hits, snap[t].misses>> \in PairsHeld

\* C14: in SpecLoad, in both engines, what a lookup returns does not depend
\* on which of GetCountry and GetCountryCode was called: an answer is the
\* answer of the committed dataset for the address, an invalid-IP error
\* comes exactly for a string that does not parse, an initialization error
\* carries the load's error; and every committed record, every cache entry
\* and every entry in a caller's hand has its country equal to its code.
C14_CountryAndCodeInterchangeable ==
    /\ \A i \in 1..Len(ranges) : ranges[i].Country = ranges[i].Code
    /\ \A k \in DOMAIN items : items[k].country = items[k].code
    /\ \A t \in Threads :
          /\ entry[t].country = entry[t].code
          /\ IsLookup(ret[t]) =>
                /\ ret[t].kind \in {"code", "notfound", "invalid", "initerr"}
                /\ Answered(ret[t]) =>
                      /\ parseIP(ret[t].ip).ok
                      /\ <<ret[t].kind, ret[t].val>> = DatasetAnswer(AddrOf(ret[t]))
                /\ ret[t].kind = "invalid" => ~parseIP(ret[t].ip).ok /\ ret[t].val = ""
                /\ ret[t].kind = "initerr" => ret[t].val # NoErr

\* GetCountry has returned a code from the cache, where an earlier lookup
\* had put it.
C14_Witness ==
    \E t \in Threads :
        /\ ret[t].op = "GetCountry" /\ ret[t].kind = "code"
        /\ AddrOf(ret[t]) \in DOMAIN items
        /\ ret[t].val = items[AddrOf(ret[t])].code
        /\ calls = 2 /\ hits = 1 /\ misses = 1 /\ loads = 1

\* The lines of the source file that are records of the exact engine (not
\* blank, not the skipped header), and those of them that are malformed.
ExactRecords ==
    {i \in 1..Len(file.lines) :
        Len(file.lines[i]) # 0 /\ ~(config.SkipHeader /\ i = 1)}

\* A record of the exact engine is well-formed when it has two fields, an
\* address that parses and a code that is not empty.
WellFormedExact(line) ==
    /\ Len(line) = 2
    /\ parseIP(line[1]).ok
    /\ line[2] # Txt("")

\* What is wrong with a malformed record.
DefectOf(line) ==
    IF Len(line) # 2 THEN "incorrect number of fields"
    ELSE IF ~parseIP(line[1]).ok THEN "invalid IP"
    ELSE "country code cannot be empty"

Malformed == {i \in ExactRecords : ~WellFormedExact(file.lines[i])}

\* The map the well-formed records give, applied in file order: each
\* address has the code of the last record for it.
RefMap ==
    LET good == ExactRecords \ Malformed
        ipOf(i) == parseIP(file.lines[i][1]).num
        last(ip) == CHOOSE i \in good : ipOf(i) = ip /\ \A j \in good : ipOf(j) = ip => j <= i
    IN  [ip \in {ipOf(i) : i \in good} |-> file.lines[last(ip)][2].txt]

\* One error per malformed record, in file order, with its line number.
RefErrors ==
    LET nth(k) == CHOOSE i \in Malformed :
                      Cardinality({j \in Malformed : j < i}) = k - 1
    IN  [k \in 1..Cardinality(Malformed) |->
            [Line |-> nth(k), Err |-> DefectOf(file.lines[nth(k)])]]

ListKeys == {evictList[i] : i \in 1..Len(evictList)}

\* C16: in SpecCache, whatever get, put and clear calls have run and
\* however they interleave, the cache holds at most capacity entries, the
\* key index and the recency list hold the same keys, and no key is twice
\* in the list.
C16_CacheStructure ==
    /\ config.CacheSize >= 1
    /\ Cardinality(DOMAIN items) <= config.CacheSize
    /\ Len(evictList) <= config.CacheSize
    /\ ListKeys = DOMAIN items
    /\ \A i, j \in 1..Len(evictList) : evictList[i] = evictList[j] => i = j

\* A full cache of capacity 2 after three different keys were put and one
\* of them was found by a get.
C16_Witness ==
    /\ config.CacheSize = 2
    /\ Len(evictList) = 2
    /\ hits = 1
    /\ Cardinality({log[i].key : i \in {j \in Rets : log[j].r.kind = "stored"}}) = 3

(***************************************************************************)
(* SpecNoReload: threads calling GetCountryCodeWithContext and Stats on    *)
(* one engine of either kind, over every source file of Sources; Reload    *)
(* is never called.  FairNoReload: every thread that can step eventually   *)
(* does, as the Go scheduler runs every runnable goroutine.                *)
(***************************************************************************)
\* The lookups of SpecNoReload: one address, under either context.
NoReloadLookup(t) ==
    \E c \in Ctxs : Call(t, "GetCountryCode", Dot(4), c, "init_fast")

NoReloadStep(t) ==
    \/ NoReloadLookup(t)
    \/ Stats(t)
    \/ SnapRLock(t)
    \/ SnapCopy(t)
    \/ SnapRUnlock(t)
    \/ StatsHits(t)
    \/ StatsMisses(t)
    \/ InitFast(t)
    \/ InitFastErr(t)
    \/ InitLock(t)
    \/ InitAcquire(t)
    \/ LoadOpen(t)
    \/ LoadScan(t)
    \/ LoadDone(t)
    \/ InitUnlock(t)
    \/ RLock(t)
    \/ CacheGetLock(t)
    \/ CacheGet(t)
    \/ FindSearch(t)
    \/ CachePutLock(t)
    \/ CachePut(t)
    \/ Return(t)

NextNoReload == \E t \in Threads : NoReloadStep(t)

SpecNoReload == Init /\ [][NextNoReload]_vars

FairNoReload == SpecNoReload /\ \A t \in Threads : WF_vars(NoReloadStep(t))

\* C17: with Reload never called, every lookup call and every Stats call
\* eventually returns, with no engine lock and no cache lock left to it,
\* whether the load succeeds or fails.
C17_CallsReturn ==
    \A t \in Threads :
        (pc[t] # "idle") ~>
            (pc[t] = "idle" /\ wholder # t /\ t \notin readers /\ cmu # t)

\* One thread has returned from Stats and the other from a lookup that a
\* failed load ended, after a lookup was answered from a loaded dataset.
C17_Witness ==
    /\ ret[1] # NoRet /\ ret[1].op = "Stats"
    /\ ret[2] # NoRet /\ ret[2].op \in LookupOps /\ ret[2].kind = "initerr"
    /\ calls = MaxCalls
    /\ \A t \in Threads : pc[t] = "idle"

\* Where a thread is about to call, or is blocked in, Lock or RLock of the
\* engine's reader-writer lock.
EngineLockRequests ==
    {"init_lock", "init_wait", "rlock", "reload_lock", "reload_wait",
     "snap_rlock"}

\* Where a thread is inside the body of a cache operation.
CacheBodies == {"get_body", "put_body", "clear_body", "clear_misses"}

\* C18: in SpecStats, a thread holds the cache mutex exactly while it is in the
\* body of get, put or clear, so never while it requests the engine lock
\* and never after the cache operation returned; get and put run inside
\* the shared lock and Reload's clear inside the exclusive lock.
C18_LockOrdering ==
    \A t \in Threads :
        /\ cmu = t <=> pc[t] \in CacheBodies
        /\ pc[t] \in EngineLockRequests \cup {"idle"} => cmu # t
        /\ pc[t] \in {"get_body", "put_body"} => t \in readers /\ wholder # t
        /\ pc[t] \in {"clear_body", "clear_misses"} =>
              wholder = t /\ readers = {}

\* Thread 1 holds the cache mutex inside the shared lock while thread 2,
\* also inside the shared lock, waits for the mutex.
C18_Witness ==
    /\ cmu = 1 /\ pc[1] = "put_body" /\ 1 \in readers
    /\ pc[2] = "get_lock" /\ 2 \in readers

(***************************************************************************)
(* SpecExcl: threads calling lookups, Reload, Stats and GetParseErrors on  *)
(* one engine; the source of the exact engine has a malformed record, so   *)
(* that a load writes the parse-error list.                                *)
(***************************************************************************)
PointsBad == File(<< <<Junk, Txt("AU")>>, <<Dec(4), Txt("CN")>> >>)

InitExcl ==
    /\ kind \in {"range", "exact"}
    /\ config = SpecConfig
    /\ file \in (IF kind = "range" THEN {RangesA, NoFile} ELSE {PointsBad, NoFile})
    /\ recording = FALSE
    /\ InitEngine
    /\ InitCache
    /\ InitThreads
    /\ NoValidate

NextExcl == \E t \in Threads : StatsStep(t) \/ GetParseErrors(t)

SpecExcl == InitExcl /\ [][NextExcl]_vars

\* Where a thread is inside findCountryForIP, between Stats' RLock and
\* RUnlock, or inside GetParseErrors.
Reading ==
    {t \in Threads :
        pc[t] \in {"get_lock", "get_body", "find_search", "put_lock",
                   "put_body", "runlock", "snap_copy", "snap_runlock"}}

\* Thread t holds the exclusive lock and no thread is reading.
Exclusive(t) == wholder = t /\ readers = {} /\ Reading = {}

\* C19: in SpecExcl, every step that changes the range collection, the
\* exact map, the stats or the parse-error list is taken by a thread that
\* holds the exclusive lock while no thread is inside findCountryForIP,
\* Stats' copy or GetParseErrors; a thread inside a load holds the
\* exclusive lock, and every reading thread holds the shared lock.
C19_DatasetMutualExclusion ==
    [][/\ dataVars' # dataVars =>
              \E t \in Threads :
                  /\ Exclusive(t)
                  /\ pc[t] \in {"load_open", "load_scan", "load_done",
                                "reload_wait"}
                  /\ \A u \in Threads \ {t} : pc'[u] = pc[u]
       /\ \A t \in Loading : Exclusive(t)
       /\ Reading \subseteq readers
       /\ readers # {} => Loading = {}]_vars

\* A load of the exact engine has written a parse error while the other
\* thread, having called GetParseErrors, waits for the shared lock.
C19_Witness ==
    /\ kind = "exact"
    /\ pc[1] = "load_scan" /\ wholder = 1
    /\ Len(parseErrors) = 1
    /\ pc[2] = "snap_rlock" /\ op[2] = "GetParseErrors"

\* The cache entry for key k says what the committed dataset says of k.
EntryAgrees(k) ==
    IF items[k].found THEN DatasetAnswer(k) = <<"code", items[k].code>>
    ELSE DatasetAnswer(k)[1] = "notfound"

\* A Reload has reset the dataset and not yet emptied the cache.
ReloadClearing == {t \in Threads : pc[t] \in {"clear_lock", "clear_body"}}

\* C20 as stated: in every reachable state of Spec every entry in the
\* cache agrees with the committed dataset.
C20_CacheCoherentAlways == \A k \in DOMAIN items : EntryAgrees(k)

\* C20 as amended: in every reachable state of Spec in which no Reload is
\* between its reset of the dataset and its emptying of the cache, every
\* entry in the cache agrees with the committed dataset; in particular in
\* every state in which a thread is inside a lookup's read section.
C20_CacheCoherent ==
    /\ ReloadClearing = {} => \A k \in DOMAIN items : EntryAgrees(k)
    /\ ReloadClearing # {} => readers = {}

\* The cache holds a found and a not-found entry of the loaded dataset
\* while a Reload waits for the lookup that holds the shared lock.
C20_Witness ==
    /\ \E k \in DOMAIN items : items[k].found
    /\ \E k \in DOMAIN items : ~items[k].found
    /\ \E t \in Threads : pc[t] = "reload_wait"
    /\ readers # {}

\* The threads in the slow path of initializeWithContext: about to call
\* Lock, blocked in it, loading, or about to unlock.
SlowPath ==
    {t \in Threads :
        pc[t] \in {"init_lock", "init_wait", "load_open", "load_scan",
                   "load_done", "init_unlock"}}

\* The flag is 1 and the calls that read it as 0 have left the slow path.
Steady == initialized = 1 /\ SlowPath = {}

\* C21: in SpecNoReload, from the moment the flag is 1 and the calls that
\* read it as 0 have left the slow path, the flag stays 1, no lookup enters
\* the slow path, and the exclusive lock is never held or requested: a
\* lookup waiting in RLock is granted it whoever holds the shared lock.
C21_SteadyLookupsShareOnly ==
    [][Steady =>
          /\ wholder = NoThread
          /\ \A t \in Threads : pc[t] = "rlock" => MayRLock(wholder)
          /\ initialized' = 1
          /\ SlowPath' = {}
          /\ wholder' = NoThread]_vars

\* The engine is Ready and every thread holds the shared lock inside a
\* lookup, one in the cache and one waiting for the cache's lock.
C21_Witness ==
    /\ Steady
    /\ readers = Threads
    /\ pc[1] = "get_body" /\ cmu = 1
    /\ pc[2] = "get_lock"

\* The address strings that denote an IPv4 address.
WellFormedAddr(s) == s.form = "dot" \/ (s.form = "dec" /\ s.n <= MaxIP)

\* Where a lookup is once initializeWithContext has read the flag as 1.
ReadyPath ==
    {"init_fast_err", "rlock", "get_lock", "get_body", "find_search",
     "put_lock", "put_body", "runlock"}

\* Thread t takes a step of a lookup on a Ready engine.
ReadyLookupStep(t) ==
    /\ op[t] \in LookupOps
    /\ pc'[t] # pc[t]
    /\ pc[t] \in ReadyPath \/ (pc[t] = "init_fast" /\ initialized = 1)

\* Thread t takes a step of a lookup of a string that is no IPv4 address.
InvalidLookupStep(t) ==
    /\ op[t] \in LookupOps
    /\ pc'[t] # pc[t]
    /\ ~WellFormedAddr(ipStr[t])

\* C22: in Spec, no step of a lookup on a Ready engine, whatever it
\* returns, changes the committed dataset, the parse errors, the stats, the
\* flag or the recorded initialization error; a lookup of an invalid string
\* never enters the read section, no step of it changes the cache entries,
\* their order or the counters, and on a Ready engine without a recorded
\* error it returns the invalid-IP error.
C22_LookupErrorsLeaveEngine ==
    [][\A t \in Threads :
          /\ ReadyLookupStep(t) =>
                UNCHANGED <<dataVars, initialized, initErr, file>>
          /\ InvalidLookupStep(t) =>
                /\ UNCHANGED <<cacheVars, cmu>>
                /\ pc[t] \notin ReadyPath \ {"init_fast_err"}
                /\ (pc[t] = "init_fast_err" /\ initErr = NoErr) =>
                      (pc'[t] = "idle" /\ ret'[t].kind = "invalid")]_vars

\* On a Ready engine with a non-empty cache one thread has returned
\* not-found and the other the invalid-IP error.
C22_Witness ==
    /\ initialized = 1 /\ initErr = NoErr
    /\ ret[1].op \in LookupOps /\ ret[1].kind = "notfound"
    /\ ret[2].op \in LookupOps /\ ret[2].kind = "invalid"
    /\ hits + misses = 1
    /\ Cardinality(DOMAIN items) = 1
    /\ loads = 1

\* The place of key in list.
Pos(list, key) == CHOOSE i \in 1..Len(list) : list[i] = key

\* Thread t runs the body of a put whose key is in the cache.
PutExisting(t) ==
    /\ pc[t] = "put_body"
    /\ pc'[t] # "put_body"
    /\ ipNum[t] \in DOMAIN items

\* C23: in SpecCache, a put on a key already in the cache stores the new
\* value under the key and moves the key to the front of the recency
\* list; the keys, the number of entries, the values and the relative
\* order of the other keys and the two counters stay as they were, also
\* when the cache is full.
C23_PutExistingReplaces ==
    [][\A t \in Threads :
          PutExisting(t) =>
              LET k == ipNum[t]
                  others == DOMAIN items \ {k}
              IN  /\ DOMAIN items' = DOMAIN items
                  /\ items'[k] = entry[t]
                  /\ \A j \in others : items'[j] = items[j]
                  /\ Len(evictList') = Len(evictList)
                  /\ evictList'[1] = k
                  /\ \A a, b \in others :
                        Pos(evictList', a) < Pos(evictList', b) <=>
                            Pos(evictList, a) < Pos(evictList, b)
                  /\ hits' = hits
                  /\ misses' = misses]_vars

\* A cache of capacity 2 after puts of key 0, key 1 and key 0 again with
\* another value: both keys are held, 0 in front with the new value.
C23_Witness ==
    /\ config.CacheSize = 2
    /\ calls = 3
    /\ \E i, j, k \in 1..Len(log) :
          /\ i < j /\ j < k
          /\ \A n \in {i, j, k} : log[n].ev = "ret" /\ log[n].r.kind = "stored"
          /\ log[i].key = 0 /\ log[j].key = 1 /\ log[k].key = 0
    /\ evictList = <<0, 1>>
    /\ ~items[0].found
    /\ items[1].found

\* The gets that completed after the last clear emptied the cache, with
\* the given result ("hit" or "miss").
GetsSinceClear(result) ==
    {i \in Rets : i > LastClear /\ log[i].r.op = "get" /\ log[i].r.kind = result}

\* C24: in every reachable state of SpecCache, hits is the number of gets
\* completed since construction or the last clear that found their key and
\* misses the number of those that did not, so that clear zeroes both
\* counters together with emptying the entries and put changes neither.
C24_CounterAccounting ==
    /\ hits = Cardinality(GetsSinceClear("hit"))
    /\ misses = Cardinality(GetsSinceClear("miss"))

\* The well-formed records of the exact source a load takes: all of them,
\* the first MaxRanges of them under a record limit.
ExactTaken ==
    LET good == ExactRecords \ Malformed
    IN  {i \in good :
            config.MaxRanges = 0 \/
            Cardinality({k \in good : k < i}) < config.MaxRanges}

\* The map the taken records give, applied in file order.
TakenMap ==
    LET ipOf(i) == parseIP(file.lines[i][1]).num
        last(ip) == CHOOSE i \in ExactTaken :
                        ipOf(i) = ip /\ \A j \in ExactTaken : ipOf(j) = ip => j <= i
    IN  [ip \in {ipOf(i) : i \in ExactTaken} |-> file.lines[last(ip)][2].txt]

\* C25: in SpecLoad, once a load has succeeded, the range engine holds
\* exactly the well-formed records of the source, the first MaxRanges of
\* them in file order under a record limit, and the exact engine the map of
\* its well-formed records, the first MaxRanges of them under a limit; the
\* committed dataset has at most MaxRanges records under a limit, and
\* TotalRanges is its size.
C25_RecordLimit ==
    initialized = 1 =>
        /\ kind = "range" =>
              /\ {ranges[i] : i \in 1..Len(ranges)} =
                     {RecordAt(i) : i \in ParsedLines}
              /\ Len(ranges) = Cardinality(ParsedLines)
              /\ config.MaxRanges > 0 => Len(ranges) <= config.MaxRanges
              /\ stats.TotalRanges = Len(ranges)
        /\ kind = "exact" =>
              /\ ipMap = TakenMap
              /\ config.MaxRanges > 0 =>
                    Cardinality(DOMAIN ipMap) <= config.MaxRanges
              /\ stats.TotalRanges = Cardinality(DOMAIN ipMap)

\* Under a record limit of 1 a source of two well-formed records has been
\* loaded: the first record alone is committed and reported.
C25_Witness ==
    /\ kind = "range"
    /\ config.MaxRanges = 1
    /\ RecordLines = {1, 2}
    /\ initialized = 1
    /\ ranges = <<RecordAt(1)>>
    /\ RecordAt(2) # RecordAt(1)
    /\ stats.TotalRanges = 1

====
